---- MODULE Spec2Model ----
(***************************************************************************)
(* Model of the video analysis service of src/server.js (lines 1-1029):    *)
(* POST /analyzeVideo (Gemini Files upload, readiness poll, evaluation     *)
(* with model fallback, Firestore ledger writes, best-effort delete) and   *)
(* POST /uploadToVimeo (eligibility gate and Vimeo upload).                *)
(*                                                                         *)
(* One action per await of the handlers: the action is the completion of   *)
(* the awaited call followed by the synchronous code up to the next await. *)
(* Firestore set(...,{merge:true}) and update(...) are modelled as writes  *)
(* of the supplied top-level fields; timestamps are left out.              *)
(* The variable out holds what the step just taken delivered to a caller:  *)
(* the response and the locals of the handler that returned.               *)
(***************************************************************************)
EXTENDS Integers, Sequences, FiniteSets, TLC

(* ---------------- bounds of the model ---------------- *)
\* requests of each kind in the system specification, and how many of them
\* the host runs at the same time
NumIngest == 2
NumPublish == 2
MaxInFlight == 2

IngestIds == 1..NumIngest
PublishIds == 1..NumPublish
Jobs == {"v1", "v2"}
NoId == ""
Scores == {5, 10, 42, 85}
NoScore == -1
PrimaryChoices == {"gemini-2.0-flash-exp", "gemini-1.5-pro", "custom-model"}
Never == 999999
ActivationTimes == {0, 15000, 50000, Never}

(* ---------------- program constants ---------------- *)
SCORE_THRESHOLD == 10
timeoutMs == 45000
intervalMs == 1200

VARIABLES VIDEO_MODEL, VIMEO_ACCESS_TOKEN, env, ledger, ing, pub, files, vimeo, out, carta

vars == <<VIDEO_MODEL, VIMEO_ACCESS_TOKEN, env, ledger, ing, pub, files, vimeo, out, carta>>

config == <<VIDEO_MODEL, VIMEO_ACCESS_TOKEN, env>>

(* ---------------- errors and responses ---------------- *)
Err(kind, detail) == [kind |-> kind, detail |-> detail]
NoError == Err("absent", "")

\* e?.response?.data?.error?.message || e.message || 'unknown'
LedgerMessage(e) ==
  IF e.kind = "http" THEN Err("providerMessage", e.detail) ELSE e

\* a parsed evaluation result: its score, whether it was decoded from the
\* response text or from the '{}' default, and the candidate that produced it
NoResult == [score |-> NoScore, src |-> "absent", by |-> ""]
NoResp == [code |-> 0, ok |-> FALSE, kind |-> "none", score |-> NoScore,
           threshold |-> -1, link |-> 0, err |-> NoError]
Resp(code, kind) == [NoResp EXCEPT !.code = code, !.kind = kind]

(* ---------------- model candidates ---------------- *)
IndexOf(a, v) == CHOOSE i \in 1..Len(a) : a[i] = v /\ \A j \in 1..(i-1) : a[j] # v

\* [...].filter((v, i, a) => a.indexOf(v) === i)
RECURSIVE FilterFirst(_, _)
FilterFirst(a, i) ==
  IF i > Len(a) THEN <<>>
  ELSE (IF IndexOf(a, a[i]) = i THEN <<a[i]>> ELSE <<>>) \o FilterFirst(a, i + 1)

UnfilteredVideoModels ==
  <<VIDEO_MODEL, "gemini-2.0-flash-exp", "gemini-1.5-pro", "gemini-1.5-flash">>

VALID_VIDEO_MODELS ==
  FilterFirst(<<VIDEO_MODEL, "gemini-2.0-flash-exp", "gemini-1.5-pro", "gemini-1.5-flash">>, 1)

RetryOrderNoFilter(initialModel, validModels) == <<initialModel>> \o validModels

\* retryWithModels: the initial model, then validModels.filter(m => m !== initialModel)
RetryOrder(initialModel, validModels) ==
  <<initialModel>> \o SelectSeq(validModels, LAMBDA m : m # initialModel)

Candidates == RetryOrder(VIDEO_MODEL, VALID_VIDEO_MODELS)

(* ---------------- ledger (Firestore collection 'analyses') ---------------- *)
NoDoc == [exists |-> FALSE, status |-> "absent", result |-> NoResult, error |-> NoError,
          qualifiesForVimeo |-> "absent", scoreThreshold |-> -1,
          vimeoStatus |-> "absent", vimeoLink |-> 0, vimeoError |-> NoError,
          fileName |-> "absent"]

BoolStr(b) == IF b THEN "true" ELSE "false"

CreateWriteNoStatus(doc, name) == [doc EXCEPT !.exists = TRUE, !.fileName = name]

\* ref.set({status:'processing', fileName, ...}, {merge:true})
CreateWrite(doc, name) ==
  [doc EXCEPT !.exists = TRUE, !.status = "processing", !.fileName = name]

\* ref.set({status:'done', result, qualifiesForVimeo, scoreThreshold, vimeoStatus}, {merge:true})
DoneWrite(doc, result, qualifies) ==
  [doc EXCEPT !.exists = TRUE, !.status = "done", !.result = result,
              !.qualifiesForVimeo = BoolStr(qualifies),
              !.scoreThreshold = SCORE_THRESHOLD,
              !.vimeoStatus = IF qualifies THEN "pending" ELSE "not_applicable"]

ErrorWriteOverwrite(doc, e) ==
  [NoDoc EXCEPT !.exists = TRUE, !.status = "error", !.error = LedgerMessage(e)]

\* ref.set({status:'error', error}, {merge:true})
ErrorWrite(doc, e) ==
  [doc EXCEPT !.exists = TRUE, !.status = "error", !.error = LedgerMessage(e)]

\* ref.update({vimeoStatus:'uploading'})
UploadingWrite(doc) == [doc EXCEPT !.vimeoStatus = "uploading"]

\* ref.update({vimeoStatus:'uploaded', vimeoUri, vimeoLink, vimeoVideoId, ...})
UploadedWrite(doc, link) == [doc EXCEPT !.vimeoStatus = "uploaded", !.vimeoLink = link]

VimeoErrorWriteKeepStatus(doc, e) == [doc EXCEPT !.vimeoError = e]

VimeoErrorWriteNoDetail(doc, e) == [doc EXCEPT !.vimeoStatus = "error"]

\* ref.update({vimeoStatus:'error', vimeoError})
VimeoErrorWrite(doc, e) == [doc EXCEPT !.vimeoStatus = "error", !.vimeoError = e]

(* ---------------- Gemini Files helpers ---------------- *)
extractAlways(uploaded, r) == r

\* extractGeminiFileRef: the file reference (here the id of the run that
\* staged the file), 0 for null
extractGeminiFileRef(uploaded, r) ==
  IF uploaded \in {"name", "uri"} THEN r ELSE 0

\* the state the provider reports at time t of the run for a staged file
\* that becomes ACTIVE at time activeAt
ProviderState(behaviour, t) ==
  CASE behaviour.kind = "failed" -> "FAILED"
    [] behaviour.kind = "nostate" -> ""
    [] OTHER -> IF behaviour.activeAt <= t THEN "ACTIVE" ELSE "PROCESSING"

NoBehaviour == [kind |-> "none", activeAt |-> Never]

(* ---------------- the environment's choices ---------------- *)
\* env.full: every outcome of every provider call is explored (single-run
\* specification); otherwise staging either fails at initiation or succeeds,
\* the staged file is ACTIVE at the second fetch and the first candidate answers
InitOutcomes == IF env.full THEN {"url", "nourl", "fail", "timeout"} ELSE {"url", "fail"}

UploadedShapes == IF env.full THEN {"name", "uri", "bare", "nofile"} ELSE {"name"}

TransferOutcomes == IF env.full THEN UploadedShapes \cup {"fail", "timeout"} ELSE UploadedShapes

RemoteBehaviours ==
  IF env.full
    THEN [kind : {"normal"}, activeAt : ActivationTimes]
           \cup {[kind |-> "failed", activeAt |-> Never], [kind |-> "nostate", activeAt |-> Never]}
    ELSE {[kind |-> "normal", activeAt |-> 15000]}

AnalyzeOutcomes ==
  {[kind |-> "ok", score |-> s, src |-> "text"] : s \in env.scores}
    \cup (IF env.full
            THEN {[kind |-> "ok", score |-> NoScore, src |-> "text"],
                  [kind |-> "ok", score |-> NoScore, src |-> "default"],
                  [kind |-> "http", score |-> NoScore, src |-> "absent"],
                  [kind |-> "timeout", score |-> NoScore, src |-> "absent"],
                  [kind |-> "parse", score |-> NoScore, src |-> "absent"]}
            ELSE {})

\* how long a state fetch of the poll takes (axios timeout: 10000)
FetchDurations == IF "fetchMs" \in DOMAIN env THEN {env.fetchMs} ELSE {10000}

MayFail == IF env.full THEN {TRUE, FALSE} ELSE {TRUE}

\* requests of the system specification are well-formed
RequestIds == IF env.full THEN env.jobs \cup {NoId} ELSE env.jobs

FileInputs == IF env.full THEN {"video", "missing", "nonvideo", "oversize"} ELSE {"video"}

(* ---------------- initial state ---------------- *)
NoAnalysis == [of |-> 0, score |-> NoScore]

\* POST /generateCartaDescriptiva: whether OpenAI is configured, the position
\* of the handler, the analyses of the initial (1) and the regenerated (2)
\* carta, and the response
CartaInit == [pc |-> "idle", openai |-> FALSE, usedOpenAI |-> FALSE, regens |-> 0,
              first |-> NoAnalysis, second |-> NoAnalysis,
              resp |-> [code |-> 0, carta |-> 0, analysis |-> NoAnalysis]]

IngInit == [pc |-> "idle", job |-> NoId, uploaded |-> "null", remote |-> NoBehaviour, fetches |-> 0,
            elapsed |-> 0, state |-> "none", idx |-> 0, attempts |-> <<>>,
            lastError |-> NoError, result |-> NoResult, qualifies |-> FALSE,
            resp |-> NoResp, writes |-> <<>>, deletes |-> 0]

PubInit == [pc |-> "idle", job |-> NoId, data |-> NoDoc, passed |-> FALSE, lastError |-> NoError,
            link |-> 0, resp |-> NoResp, calls |-> 0, writes |-> <<>>]

NoOut == [handler |-> "none", id |-> 0, ing |-> IngInit, pub |-> PubInit]

InitState ==
  /\ ledger = [j \in Jobs |-> NoDoc]
  /\ ing = [r \in IngestIds |-> IngInit]
  /\ pub = [p \in PublishIds |-> PubInit]
  /\ files = {}
  /\ vimeo = {}
  /\ out = NoOut
  /\ carta = CartaInit

\* the system: concurrent requests on two job ids
Init ==
  /\ VIDEO_MODEL = "gemini-2.0-flash-exp"
  /\ VIMEO_ACCESS_TOKEN = TRUE
  /\ env = [full |-> FALSE, ingest |-> NumIngest, publish |-> NumPublish, jobs |-> {"v1"},
            scores |-> {5, 10}]
  /\ InitState

\* one ingest request and one publish request, every provider outcome
InitRun ==
  /\ VIDEO_MODEL \in PrimaryChoices
  /\ VIMEO_ACCESS_TOKEN \in BOOLEAN
  /\ env = [full |-> TRUE, ingest |-> 1, publish |-> 1, jobs |-> {"v1"},
            scores |-> Scores]
  /\ InitState

\* requests being served, and runs whose delete of the staged file is pending
Running(procs) == {i \in DOMAIN procs : procs[i].pc \notin {"idle", "finished"}}

InFlight == Cardinality(Running(ing)) + Cardinality(Running(pub))

\* request slots are taken in order
MayStart(procs, i, budget) ==
  /\ procs[i].pc = "idle"
  /\ i <= budget
  /\ \A k \in 1..(i-1) : procs[k].pc # "idle"
  /\ InFlight < MaxInFlight

(* ---------------- POST /analyzeVideo ---------------- *)
SetIng(r, rec) == ing' = [ing EXCEPT ![r] = rec]

\* the handler returns: the response and the run's locals are what the
\* caller and the logs observed; the slot keeps only the pending delete
IngestExit(r, rec) ==
  /\ out' = [NoOut EXCEPT !.handler = "analyzeVideo", !.id = r, !.ing = rec]
  /\ SetIng(r, IF rec.pc = "deleting"
                 THEN [IngInit EXCEPT !.pc = "deleting", !.uploaded = rec.uploaded]
                 ELSE [IngInit EXCEPT !.pc = "finished"])

IngestRequestWriteFirst(r, id, f) ==
  /\ MayStart(ing, r, env.ingest)
  /\ id \in RequestIds
  /\ f \in FileInputs
  /\ IF f \in {"nonvideo", "oversize"} \/ id = NoId
       THEN /\ IngestExit(r, [ing[r] EXCEPT !.pc = "finished", !.resp = Resp(400, "analysisId requerido")])
            /\ UNCHANGED ledger
     ELSE IF f = "missing"
       THEN /\ ledger' = [ledger EXCEPT ![id] = CreateWrite(@, "absent")]
            /\ IngestExit(r, [ing[r] EXCEPT !.pc = "finished", !.job = id,
                                            !.resp = Resp(400, "file requerido")])
     ELSE /\ SetIng(r, [ing[r] EXCEPT !.pc = "create", !.job = id])
          /\ out' = NoOut
          /\ UNCHANGED ledger
  /\ UNCHANGED <<config, carta, pub, files, vimeo>>

\* multer fileFilter / limits, then the handler's own checks; an accepted
\* request issues the create write
IngestRequest(r, id, f) ==
  /\ MayStart(ing, r, env.ingest)
  /\ id \in RequestIds
  /\ f \in FileInputs
  /\ IF f \in {"nonvideo", "oversize"}
       THEN IngestExit(r, [ing[r] EXCEPT !.pc = "finished", !.resp = Resp(500, "multer")])
     ELSE IF id = NoId
       THEN IngestExit(r, [ing[r] EXCEPT !.pc = "finished", !.resp = Resp(400, "analysisId requerido")])
     ELSE IF f = "missing"
       THEN IngestExit(r, [ing[r] EXCEPT !.pc = "finished", !.job = id,
                                         !.resp = Resp(400, "file requerido")])
     ELSE /\ SetIng(r, [ing[r] EXCEPT !.pc = "create", !.job = id])
          /\ out' = NoOut
  /\ UNCHANGED <<config, carta, ledger, pub, files, vimeo>>

CreateDoneSkipped(r) ==
  /\ ing[r].pc = "create"
  /\ SetIng(r, [ing[r] EXCEPT !.pc = "init"])
  /\ out' = NoOut
  /\ UNCHANGED <<config, carta, ledger, pub, files, vimeo>>

\* the create write completes; uploadToGemini sends the initiation request
CreateDone(r) ==
  /\ ing[r].pc = "create"
  /\ ledger' = [ledger EXCEPT ![ing[r].job] = CreateWrite(@, "video.mp4")]
  /\ SetIng(r, [ing[r] EXCEPT !.pc = "init", !.writes = Append(@, "processing")])
  /\ out' = NoOut
  /\ UNCHANGED <<config, carta, pub, files, vimeo>>

ThrowSwallowed(rec, e) == [rec EXCEPT !.pc = "doneWrite", !.lastError = e]

\* catch (e): the error write is issued
Throw(rec, e) == [rec EXCEPT !.pc = "errorWrite", !.lastError = e]

InitDoneContinue(r, outcome) ==
  /\ ing[r].pc = "init"
  /\ outcome \in InitOutcomes
  /\ SetIng(r, CASE outcome = "url" -> [ing[r] EXCEPT !.pc = "transfer"]
                 [] outcome = "nourl" ->
                      [ing[r] EXCEPT !.pc = "transfer",
                                     !.lastError = Err("No se obtuvo upload URL de Gemini", "")]
                 [] OTHER -> Throw(ing[r], Err("network", "init")))
  /\ out' = NoOut
  /\ UNCHANGED <<config, carta, ledger, pub, files, vimeo>>

\* the initiation request completes: upload URL, no upload URL, or failure
InitDone(r, outcome) ==
  /\ ing[r].pc = "init"
  /\ outcome \in InitOutcomes
  /\ SetIng(r, CASE outcome = "url" -> [ing[r] EXCEPT !.pc = "transfer"]
                 [] outcome = "nourl" -> Throw(ing[r], Err("No se obtuvo upload URL de Gemini", ""))
                 [] outcome = "timeout" -> Throw(ing[r], Err("timeout", "init"))
                 [] OTHER -> Throw(ing[r], Err("network", "init")))
  /\ out' = NoOut
  /\ UNCHANGED <<config, carta, ledger, pub, files, vimeo>>

\* the finalize request completes; the file reference is extracted and the
\* first state fetch of waitGeminiFileReady is sent
TransferDone(r, outcome, behaviour) ==
  /\ ing[r].pc = "transfer"
  /\ outcome \in TransferOutcomes
  /\ behaviour \in RemoteBehaviours
  /\ IF outcome \in {"fail", "timeout"}
       THEN /\ SetIng(r, Throw(ing[r], Err(IF outcome = "timeout" THEN "timeout" ELSE "network",
                                           "transfer")))
            /\ UNCHANGED files
     ELSE IF extractGeminiFileRef(outcome, r) = 0
       THEN /\ behaviour = CHOOSE b \in RemoteBehaviours : TRUE
            /\ SetIng(r, Throw([ing[r] EXCEPT !.uploaded = outcome],
                               Err("No se obtuvo referencia del archivo (name/uri) de Gemini", "")))
            /\ UNCHANGED files
     ELSE /\ SetIng(r, [ing[r] EXCEPT !.pc = "poll", !.uploaded = outcome,
                                     !.remote = behaviour, !.elapsed = 0])
          /\ files' = files \cup {extractGeminiFileRef(outcome, r)}
  /\ out' = NoOut
  /\ UNCHANGED <<config, carta, ledger, pub, vimeo>>

TimeoutMessage == "El archivo en Gemini no quedó listo"

StateTextUnknown(state) == "desconocido"

\* ${state || 'desconocido'}
StateText(state) == IF state = "" THEN "desconocido" ELSE state

FetchDoneEager(r, d, ok) ==
  /\ ing[r].pc = "poll"
  /\ d \in FetchDurations
  /\ ok \in MayFail
  /\ LET t == ing[r].elapsed + d
         state == ProviderState(ing[r].remote, t)
         rec == [ing[r] EXCEPT !.elapsed = t, !.fetches = @ + 1]
     IN IF ~ok
          THEN SetIng(r, Throw(rec, Err("network", "poll")))
          ELSE SetIng(r, [rec EXCEPT !.state = state, !.pc = "analyze", !.idx = 1])
  /\ out' = NoOut
  /\ UNCHANGED <<config, carta, ledger, pub, files, vimeo>>

FetchDoneDeadlineFirst(r, d, ok) ==
  /\ ing[r].pc = "poll"
  /\ d \in FetchDurations
  /\ ok \in MayFail
  /\ LET t == ing[r].elapsed + d
         state == ProviderState(ing[r].remote, t)
         rec == [ing[r] EXCEPT !.elapsed = t, !.fetches = @ + 1]
     IN IF ~ok
          THEN SetIng(r, Throw(rec, Err("network", "poll")))
        ELSE IF t > timeoutMs
          THEN SetIng(r, Throw([rec EXCEPT !.state = state],
                               Err(TimeoutMessage, StateText(state))))
        ELSE IF state = "ACTIVE"
          THEN SetIng(r, [rec EXCEPT !.state = state, !.pc = "analyze", !.idx = 1])
        ELSE SetIng(r, [rec EXCEPT !.state = state, !.pc = "sleep"])
  /\ out' = NoOut
  /\ UNCHANGED <<config, carta, ledger, pub, files, vimeo>>

FetchDoneFailEarly(r, d, ok) ==
  /\ ing[r].pc = "poll"
  /\ d \in FetchDurations
  /\ ok \in MayFail
  /\ LET t == ing[r].elapsed + d
         state == ProviderState(ing[r].remote, t)
         rec == [ing[r] EXCEPT !.elapsed = t, !.fetches = @ + 1]
     IN IF ~ok
          THEN SetIng(r, Throw(rec, Err("network", "poll")))
        ELSE IF state = "ACTIVE"
          THEN SetIng(r, [rec EXCEPT !.state = state, !.pc = "analyze", !.idx = 1])
        ELSE IF t > timeoutMs \/ state = "FAILED"
          THEN SetIng(r, Throw([rec EXCEPT !.state = state],
                               Err(TimeoutMessage, StateText(state))))
        ELSE SetIng(r, [rec EXCEPT !.state = state, !.pc = "sleep"])
  /\ out' = NoOut
  /\ UNCHANGED <<config, carta, ledger, pub, files, vimeo>>

\* waitGeminiFileReady: a state fetch completes after d ms
FetchDone(r, d, ok) ==
  /\ ing[r].pc = "poll"
  /\ d \in FetchDurations
  /\ ok \in MayFail
  /\ LET t == ing[r].elapsed + d
         state == ProviderState(ing[r].remote, t)
         rec == [ing[r] EXCEPT !.elapsed = t, !.fetches = @ + 1]
     IN IF ~ok
          THEN SetIng(r, Throw(rec, Err("network", "poll")))
        ELSE IF state = "ACTIVE"
          THEN SetIng(r, [rec EXCEPT !.state = state, !.pc = "analyze", !.idx = 1])
        ELSE IF t > timeoutMs
          THEN SetIng(r, Throw([rec EXCEPT !.state = state],
                               Err(TimeoutMessage, StateText(state))))
        ELSE SetIng(r, [rec EXCEPT !.state = state, !.pc = "sleep"])
  /\ out' = NoOut
  /\ UNCHANGED <<config, carta, ledger, pub, files, vimeo>>

SleepDoneBackoff(r) ==
  /\ ing[r].pc = "sleep"
  /\ SetIng(r, [ing[r] EXCEPT !.pc = "poll", !.elapsed = @ + (IF @ > 20000 THEN 2 ELSE 1) * intervalMs])
  /\ out' = NoOut
  /\ UNCHANGED <<config, carta, ledger, pub, files, vimeo>>

SleepDoneHalf(r) ==
  /\ ing[r].pc = "sleep"
  /\ SetIng(r, [ing[r] EXCEPT !.pc = "poll", !.elapsed = @ + (intervalMs \div 2)])
  /\ out' = NoOut
  /\ UNCHANGED <<config, carta, ledger, pub, files, vimeo>>

\* setTimeout(res, intervalMs) fires; the next state fetch is sent
SleepDone(r) ==
  /\ ing[r].pc = "sleep"
  /\ SetIng(r, [ing[r] EXCEPT !.pc = "poll", !.elapsed = @ + intervalMs])
  /\ out' = NoOut
  /\ UNCHANGED <<config, carta, ledger, pub, files, vimeo>>

ParseMessage == "Error parseando respuesta de Gemini"

RecordFirstError(lastError, e) == IF lastError = NoError THEN e ELSE lastError

\* catch (e) { lastError = e; } of retryWithModels
RecordError(lastError, e) == e

qualifiesStrict(score) == score # NoScore /\ score > SCORE_THRESHOLD

\* const qualifiesForVimeo = result.score >= SCORE_THRESHOLD (false for a
\* result without score)
qualifiesForVimeo(score) == score # NoScore /\ score >= SCORE_THRESHOLD

AnalyzeDoneAnyModel(r, outcome) ==
  /\ ing[r].pc = "analyze"
  /\ outcome \in AnalyzeOutcomes
  /\ \E model \in {Candidates[i] : i \in 1..Len(Candidates)} :
       LET rec == [ing[r] EXCEPT !.attempts = Append(@, [model |-> model, kind |-> outcome.kind])]
           e == IF outcome.kind = "http" THEN Err("http", model)
                ELSE Err(ParseMessage, model)
       IN IF outcome.kind = "ok"
            THEN SetIng(r, [rec EXCEPT !.pc = "doneWrite", !.lastError = NoError,
                                       !.result = [score |-> outcome.score, src |-> outcome.src,
                                                   by |-> model],
                                       !.qualifies = qualifiesForVimeo(outcome.score)])
          ELSE IF ing[r].idx < Len(Candidates)
            THEN SetIng(r, [rec EXCEPT !.lastError = RecordError(@, e), !.idx = @ + 1])
          ELSE SetIng(r, Throw(rec, RecordError(rec.lastError, e)))
  /\ out' = NoOut
  /\ UNCHANGED <<config, carta, ledger, pub, files, vimeo>>

\* retryWithModels inside geminiAnalyze: the generateContent call to the
\* current candidate completes
AnalyzeDone(r, outcome) ==
  /\ ing[r].pc = "analyze"
  /\ outcome \in AnalyzeOutcomes
  /\ LET model == Candidates[ing[r].idx]
         rec == [ing[r] EXCEPT !.attempts = Append(@, [model |-> model, kind |-> outcome.kind])]
         e == IF outcome.kind \in {"http", "timeout"} THEN Err(outcome.kind, model)
              ELSE Err(ParseMessage, model)
     IN IF outcome.kind = "ok"
          THEN SetIng(r, [rec EXCEPT !.pc = "doneWrite", !.lastError = NoError,
                                     !.result = [score |-> outcome.score, src |-> outcome.src,
                                                 by |-> model],
                                     !.qualifies = qualifiesForVimeo(outcome.score)])
        ELSE IF ing[r].idx < Len(Candidates)
          THEN SetIng(r, [rec EXCEPT !.lastError = RecordError(@, e), !.idx = @ + 1])
        ELSE SetIng(r, Throw(rec, RecordError(rec.lastError, e)))
  /\ out' = NoOut
  /\ UNCHANGED <<config, carta, ledger, pub, files, vimeo>>

FinallyOnSuccess(rec, r) ==
  IF rec.resp.ok /\ extractGeminiFileRef(rec.uploaded, r) # 0
    THEN [rec EXCEPT !.pc = "deleting", !.deletes = @ + 1]
    ELSE [rec EXCEPT !.pc = "finished"]

\* finally: deleteGeminiFile(toDelete) is started, not awaited
Finally(rec, r) ==
  IF extractGeminiFileRef(rec.uploaded, r) # 0
    THEN [rec EXCEPT !.pc = "deleting", !.deletes = @ + 1]
    ELSE [rec EXCEPT !.pc = "finished"]

\* the done write completes (or fails); res.json({ok:true,...}); finally
DoneWriteDone(r, ok) ==
  /\ ing[r].pc = "doneWrite"
  /\ ok \in MayFail
  /\ IF ok
       THEN /\ ledger' = [ledger EXCEPT ![ing[r].job] = DoneWrite(@, ing[r].result, ing[r].qualifies)]
            /\ IngestExit(r, Finally([ing[r] EXCEPT !.writes = Append(@, "done"),
                                        !.resp = [NoResp EXCEPT !.code = 200, !.ok = TRUE, !.kind = "ok",
                                                                !.score = ing[r].result.score]], r))
       ELSE /\ SetIng(r, Throw(ing[r], Err("firestore", "done")))
            /\ out' = NoOut
            /\ UNCHANGED ledger
  /\ UNCHANGED <<config, carta, pub, files, vimeo>>

\* the error write completes; res.status(500).json(...); finally
ErrorWriteDone(r) ==
  /\ ing[r].pc = "errorWrite"
  /\ ledger' = [ledger EXCEPT ![ing[r].job] = ErrorWrite(@, ing[r].lastError)]
  /\ IngestExit(r, Finally([ing[r] EXCEPT !.writes = Append(@, "error"),
                              !.resp = [NoResp EXCEPT !.code = 500, !.kind = "error",
                                                      !.err = ing[r].lastError]], r))
  /\ UNCHANGED <<config, carta, pub, files, vimeo>>

DeleteDoneAll(r, ok) ==
  /\ ing[r].pc = "deleting"
  /\ ok \in MayFail
  /\ SetIng(r, [IngInit EXCEPT !.pc = "finished"])
  /\ files' = IF ok THEN {} ELSE files
  /\ out' = NoOut
  /\ UNCHANGED <<config, carta, ledger, pub, vimeo>>

\* deleteGeminiFile: the delete request completes or fails; a failure is
\* logged and swallowed
DeleteDone(r, ok) ==
  /\ ing[r].pc = "deleting"
  /\ ok \in MayFail
  /\ SetIng(r, [IngInit EXCEPT !.pc = "finished"])
  /\ files' = IF ok THEN files \ {extractGeminiFileRef(ing[r].uploaded, r)} ELSE files
  /\ out' = NoOut
  /\ UNCHANGED <<config, carta, ledger, pub, vimeo>>

Ingest ==
  \E r \in IngestIds :
    \/ \E id \in Jobs \cup {NoId}, f \in {"video", "missing", "nonvideo", "oversize"} : IngestRequest(r, id, f)
    \/ CreateDone(r)
    \/ \E o \in {"url", "nourl", "fail", "timeout"} : InitDone(r, o)
    \/ \E o \in {"name", "uri", "bare", "nofile", "fail", "timeout"}, b \in RemoteBehaviours :
         TransferDone(r, o, b)
    \/ \E d \in FetchDurations, ok \in BOOLEAN : FetchDone(r, d, ok)
    \/ SleepDone(r)
    \/ \E o \in AnalyzeOutcomes : AnalyzeDone(r, o)
    \/ \E ok \in BOOLEAN : DoneWriteDone(r, ok)
    \/ ErrorWriteDone(r)
    \/ \E ok \in BOOLEAN : DeleteDone(r, ok)

(* ---------------- POST /uploadToVimeo ---------------- *)
SetPub(p, rec) == pub' = [pub EXCEPT ![p] = rec]

PublishExit(p, rec) ==
  /\ out' = [NoOut EXCEPT !.handler = "uploadToVimeo", !.id = p, !.pub = rec]
  /\ SetPub(p, [PubInit EXCEPT !.pc = "finished"])

\* multer, then the handler's own checks; then ref.get() is issued
PublishRequest(p, id, f) ==
  /\ MayStart(pub, p, env.publish)
  /\ id \in RequestIds
  /\ f \in FileInputs
  /\ IF f \in {"nonvideo", "oversize"}
       THEN PublishExit(p, [pub[p] EXCEPT !.pc = "finished", !.resp = Resp(500, "multer")])
     ELSE IF id = NoId
       THEN PublishExit(p, [pub[p] EXCEPT !.pc = "finished", !.resp = Resp(400, "analysisId requerido")])
     ELSE IF f = "missing"
       THEN PublishExit(p, [pub[p] EXCEPT !.pc = "finished", !.job = id,
                                          !.resp = Resp(400, "file requerido")])
     ELSE /\ SetPub(p, [pub[p] EXCEPT !.pc = "read", !.job = id])
          /\ out' = NoOut
  /\ UNCHANGED <<config, carta, ledger, ing, files, vimeo>>

AlreadyMessage == "Este video ya fue subido a Vimeo"
EligibilityMessage == "El video no alcanzó el puntaje mínimo"

PrecheckUploadedFirst(data) ==
  IF ~data.exists
    THEN Resp(404, "Análisis no encontrado")
  ELSE IF data.vimeoStatus = "uploaded"
    THEN [Resp(400, AlreadyMessage) EXCEPT !.link = data.vimeoLink]
  ELSE IF data.qualifiesForVimeo # "true"
    THEN [Resp(403, EligibilityMessage) EXCEPT
            !.score = data.result.score, !.threshold = SCORE_THRESHOLD]
  ELSE NoResp

PrecheckNoGate(data) ==
  IF ~data.exists
    THEN Resp(404, "Análisis no encontrado")
  ELSE IF data.vimeoStatus = "uploaded"
    THEN [Resp(400, AlreadyMessage) EXCEPT !.link = data.vimeoLink]
  ELSE NoResp

\* the precondition checks of the handler on the document it read: the
\* response of the first check that fails, NoResp when all pass
Precheck(data) ==
  IF ~data.exists
    THEN Resp(404, "Análisis no encontrado")
  ELSE IF data.qualifiesForVimeo # "true"
    THEN [Resp(403, EligibilityMessage) EXCEPT
            !.score = data.result.score, !.threshold = SCORE_THRESHOLD]
  ELSE IF data.vimeoStatus = "uploaded"
    THEN [Resp(400, AlreadyMessage) EXCEPT !.link = data.vimeoLink]
  ELSE NoResp

ReadDoneMarking(p) ==
  /\ pub[p].pc = "read"
  /\ LET data == ledger[pub[p].job]
         rec == [pub[p] EXCEPT !.pc = "finished", !.data = data]
     IN IF Precheck(data) # NoResp
          THEN /\ PublishExit(p, [rec EXCEPT !.resp = Precheck(data)])
               /\ ledger' = [ledger EXCEPT ![pub[p].job] = VimeoErrorWrite(@, Err("rejected", ""))]
          ELSE /\ SetPub(p, [rec EXCEPT !.pc = "markUploading", !.passed = TRUE])
               /\ out' = NoOut
               /\ UNCHANGED ledger
  /\ UNCHANGED <<config, carta, ing, files, vimeo>>

\* ref.get() completes; the three precondition checks; ref.update({vimeoStatus:'uploading'})
\* is issued when they pass
ReadDone(p) ==
  /\ pub[p].pc = "read"
  /\ LET data == ledger[pub[p].job]
         rec == [pub[p] EXCEPT !.pc = "finished", !.data = data]
     IN IF Precheck(data) # NoResp
          THEN PublishExit(p, [rec EXCEPT !.resp = Precheck(data)])
          ELSE /\ SetPub(p, [rec EXCEPT !.pc = "markUploading", !.passed = TRUE])
               /\ out' = NoOut
  /\ UNCHANGED <<config, carta, ledger, ing, files, vimeo>>

PubThrow(rec, e) == [rec EXCEPT !.pc = "errorWrite", !.lastError = e]

\* the 'uploading' write completes; uploadToVimeoAPI checks the token and
\* sends the create request
MarkUploadingDone(p) ==
  /\ pub[p].pc = "markUploading"
  /\ ledger' = [ledger EXCEPT ![pub[p].job] = UploadingWrite(@)]
  /\ LET rec == [pub[p] EXCEPT !.writes = Append(@, "uploading")]
     IN IF ~VIMEO_ACCESS_TOKEN
          THEN SetPub(p, PubThrow(rec, Err("VIMEO_ACCESS_TOKEN no configurado", "")))
          ELSE SetPub(p, [rec EXCEPT !.pc = "vimeoCreate", !.calls = @ + 1])
  /\ out' = NoOut
  /\ UNCHANGED <<config, carta, ing, files, vimeo>>

\* 1. POST /me/videos completes; the tus PATCH is sent
VimeoCreateDone(p, ok) ==
  /\ pub[p].pc = "vimeoCreate"
  /\ ok \in MayFail
  /\ IF ok THEN SetPub(p, [pub[p] EXCEPT !.pc = "vimeoPatch", !.calls = @ + 1])
          ELSE SetPub(p, PubThrow(pub[p], Err("vimeo", "create")))
  /\ out' = NoOut
  /\ UNCHANGED <<config, carta, ledger, ing, files, vimeo>>

\* 2. the PATCH of the payload completes; the GET of the video is sent
VimeoPatchDone(p, ok) ==
  /\ pub[p].pc = "vimeoPatch"
  /\ IF ok THEN /\ SetPub(p, [pub[p] EXCEPT !.pc = "vimeoDetails", !.calls = @ + 1])
               /\ vimeo' = vimeo \cup {<<p, pub[p].job>>}
          ELSE /\ SetPub(p, PubThrow(pub[p], Err("vimeo", "patch")))
               /\ UNCHANGED vimeo
  /\ out' = NoOut
  /\ UNCHANGED <<config, carta, ledger, ing, files>>

\* 3. the GET of the video completes; the 'uploaded' write is issued
VimeoDetailsDone(p, ok) ==
  /\ pub[p].pc = "vimeoDetails"
  /\ ok \in MayFail
  /\ IF ok THEN SetPub(p, [pub[p] EXCEPT !.pc = "savedWrite", !.link = p])
          ELSE SetPub(p, PubThrow(pub[p], Err("vimeo", "details")))
  /\ out' = NoOut
  /\ UNCHANGED <<config, carta, ledger, ing, files, vimeo>>

\* the 'uploaded' write completes; res.json({ok:true, vimeoLink, ...})
SavedWriteDone(p) ==
  /\ pub[p].pc = "savedWrite"
  /\ ledger' = [ledger EXCEPT ![pub[p].job] = UploadedWrite(@, pub[p].link)]
  /\ PublishExit(p, [pub[p] EXCEPT !.pc = "finished", !.writes = Append(@, "uploaded"),
                       !.resp = [NoResp EXCEPT !.code = 200, !.ok = TRUE, !.kind = "ok",
                                               !.link = pub[p].link]])
  /\ UNCHANGED <<config, carta, ing, files, vimeo>>

\* catch (e): the 'error' write completes; res.status(500).json(...)
PubErrorWriteDone(p) ==
  /\ pub[p].pc = "errorWrite"
  /\ ledger' = [ledger EXCEPT ![pub[p].job] = VimeoErrorWrite(@, pub[p].lastError)]
  /\ PublishExit(p, [pub[p] EXCEPT !.pc = "finished", !.writes = Append(@, "error"),
                       !.resp = [NoResp EXCEPT !.code = 500, !.kind = "error",
                                               !.err = pub[p].lastError]])
  /\ UNCHANGED <<config, carta, ing, files, vimeo>>

Publish ==
  \E p \in PublishIds :
    \/ \E id \in Jobs \cup {NoId}, f \in {"video", "missing", "nonvideo", "oversize"} : PublishRequest(p, id, f)
    \/ ReadDone(p)
    \/ MarkUploadingDone(p)
    \/ \E ok \in BOOLEAN : VimeoCreateDone(p, ok)
    \/ \E ok \in BOOLEAN : VimeoPatchDone(p, ok)
    \/ \E ok \in BOOLEAN : VimeoDetailsDone(p, ok)
    \/ SavedWriteDone(p)
    \/ PubErrorWriteDone(p)

Next == Ingest \/ Publish

Spec == Init /\ [][Next]_vars

SpecRun == InitRun /\ [][Next]_vars

\* requests on two job ids, served concurrently
InitJobs ==
  /\ VIDEO_MODEL = "gemini-2.0-flash-exp"
  /\ VIMEO_ACCESS_TOKEN = TRUE
  /\ env = [full |-> FALSE, ingest |-> 2, publish |-> 2, jobs |-> Jobs, scores |-> {10}]
  /\ InitState

SpecJobs == InitJobs /\ [][Next]_vars

(* ---------------- two calls of retryWithModels, same outcomes ---------------- *)
\* two runs that reached the evaluation; env.pattern gives, for each
\* position of the candidate list, what the call to that candidate answers
\* in both of them
Invocations == {1, 2}

MaxCandidates == 4

AtEvaluation ==
  [IngInit EXCEPT !.pc = "analyze", !.job = "v1", !.uploaded = "name",
                  !.remote = [kind |-> "normal", activeAt |-> 0], !.elapsed = 10000,
                  !.state = "ACTIVE", !.idx = 1, !.writes = <<"processing">>]

InitRetry ==
  /\ VIDEO_MODEL \in PrimaryChoices
  /\ VIMEO_ACCESS_TOKEN = TRUE
  /\ \E pattern \in [1..MaxCandidates ->
                        {[kind |-> "ok", score |-> 5, src |-> "text"],
                         [kind |-> "ok", score |-> 10, src |-> "text"],
                         [kind |-> "ok", score |-> NoScore, src |-> "default"],
                         [kind |-> "http", score |-> NoScore, src |-> "absent"],
                         [kind |-> "parse", score |-> NoScore, src |-> "absent"]}] :
       env = [full |-> TRUE, ingest |-> 0, publish |-> 0, jobs |-> {"v1"},
              scores |-> {5, 10}, pattern |-> pattern]
  /\ ledger = [j \in Jobs |-> IF j = "v1" THEN CreateWrite(NoDoc, "video.mp4") ELSE NoDoc]
  /\ ing = [r \in IngestIds |-> IF r \in Invocations THEN AtEvaluation ELSE IngInit]
  /\ pub = [p \in PublishIds |-> PubInit]
  /\ files = Invocations
  /\ vimeo = {}
  /\ out = NoOut
  /\ carta = CartaInit

\* operation(model) of the current candidate completes as the pattern says
RetryAttempt(r) == AnalyzeDone(r, env.pattern[ing[r].idx])

NextRetry == \E r \in Invocations : RetryAttempt(r)

SpecRetry == InitRetry /\ [][NextRetry]_vars

(* ---------------- publish calls on an analysed job ---------------- *)
\* the record of v1 after an analysis with score 10
AnalysedDoc ==
  DoneWrite(CreateWrite(NoDoc, "video.mp4"),
            [score |-> 10, src |-> "text", by |-> "gemini-2.0-flash-exp"], qualifiesForVimeo(10))

InitPublish ==
  /\ VIDEO_MODEL = "gemini-2.0-flash-exp"
  /\ VIMEO_ACCESS_TOKEN \in BOOLEAN
  /\ env = [full |-> TRUE, ingest |-> 0, publish |-> 2, jobs |-> {"v1"}, scores |-> {10}]
  /\ ledger = [j \in Jobs |-> IF j = "v1" THEN AnalysedDoc ELSE NoDoc]
  /\ ing = [r \in IngestIds |-> IngInit]
  /\ pub = [p \in PublishIds |-> PubInit]
  /\ files = {}
  /\ vimeo = {}
  /\ out = NoOut
  /\ carta = CartaInit

\* every ledger write and every Vimeo request of a publish call completes
SpecPublish == InitPublish /\ [][Publish]_vars /\ WF_vars(Publish)

(* ---------------- one call of waitGeminiFileReady ---------------- *)
\* a run whose file was just staged; state fetches take no time or 10 s
AtPoll(behaviour) ==
  [IngInit EXCEPT !.pc = "poll", !.job = "v1", !.uploaded = "name", !.remote = behaviour,
                  !.elapsed = 0, !.writes = <<"processing">>]

InitPoll ==
  /\ VIDEO_MODEL = "gemini-2.0-flash-exp"
  /\ VIMEO_ACCESS_TOKEN = TRUE
  /\ \E ms \in {0, 10000} :
       env = [full |-> TRUE, ingest |-> 0, publish |-> 0, jobs |-> {"v1"}, scores |-> {10},
              fetchMs |-> ms]
  /\ ledger = [j \in Jobs |-> IF j = "v1" THEN CreateWrite(NoDoc, "video.mp4") ELSE NoDoc]
  /\ \E b \in RemoteBehaviours :
       ing = [r \in IngestIds |-> IF r = 1 THEN AtPoll(b) ELSE IngInit]
  /\ pub = [p \in PublishIds |-> PubInit]
  /\ files = {1}
  /\ vimeo = {}
  /\ out = NoOut
  /\ carta = CartaInit

NextPoll ==
  \/ \E ok \in BOOLEAN : FetchDone(1, env.fetchMs, ok)
  \/ SleepDone(1)

\* every state fetch returns and every timer fires
SpecPoll == InitPoll /\ [][NextPoll]_vars /\ WF_vars(NextPoll)

(* ---------------- POST /generateCartaDescriptiva ---------------- *)
CartaScores == {NoScore, 0, 40, 60, 85, 99, 100}

\* a < b and a >= b of JavaScript on scores that may be undefined
Lt(a, b) == a # NoScore /\ b # NoScore /\ a < b
Ge(a, b) == a # NoScore /\ b # NoScore /\ a >= b

SetCarta(rec) ==
  /\ carta' = rec
  /\ UNCHANGED <<config, ledger, ing, pub, files, vimeo, out>>

CartaResp(code, id, analysis) == [code |-> code, carta |-> id, analysis |-> analysis]

CartaFail(rec) == [rec EXCEPT !.pc = "finished", !.resp = CartaResp(500, 0, NoAnalysis)]

\* the validation of temaDescription; generateCartaWithOpenAI when OpenAI
\* is configured, generateCartaWithGemini otherwise
CartaRequest(valid) ==
  /\ carta.pc = "idle"
  /\ IF ~valid
       THEN SetCarta([carta EXCEPT !.pc = "finished", !.resp = CartaResp(400, 0, NoAnalysis)])
       ELSE SetCarta([carta EXCEPT !.pc = IF carta.openai THEN "openai1" ELSE "gemini1"])

\* a generation call completes: OpenAI falls back to Gemini, a failure of
\* Gemini reaches the catch of the handler
GenerateDone(ok) ==
  /\ carta.pc \in {"openai1", "gemini1", "openai2", "gemini2"}
  /\ SetCarta(CASE carta.pc = "openai1" ->
                      IF ok THEN [carta EXCEPT !.pc = "analyze1", !.usedOpenAI = TRUE]
                            ELSE [carta EXCEPT !.pc = "gemini1"]
                 [] carta.pc = "gemini1" ->
                      IF ok THEN [carta EXCEPT !.pc = "analyze1"] ELSE CartaFail(carta)
                 [] carta.pc = "openai2" ->
                      IF ok THEN [carta EXCEPT !.pc = "analyze2"]
                            ELSE [carta EXCEPT !.pc = "gemini2"]
                 [] OTHER ->
                      IF ok THEN [carta EXCEPT !.pc = "analyze2"] ELSE CartaFail(carta))

BestCartaLatest(first, second) == second

\* the version returned after a regeneration
BestCarta(first, second) ==
  IF Ge(second.score, 100) THEN second
  ELSE IF Lt(first.score, second.score) THEN second ELSE first

\* analyzeCartaWithGemini completes with a score (or without one), or fails
AnalyzeCartaDone(ok, outcome) ==
  /\ carta.pc \in {"analyze1", "analyze2"}
  /\ outcome \in CartaScores
  /\ IF ~ok THEN SetCarta(CartaFail(carta))
     ELSE IF carta.pc = "analyze1"
       THEN LET analysis == [of |-> 1, score |-> outcome]
                rec == [carta EXCEPT !.first = analysis]
            IN IF Lt(outcome, 100)
                 THEN SetCarta([rec EXCEPT !.regens = @ + 1,
                                           !.pc = IF carta.usedOpenAI /\ carta.openai
                                                    THEN "openai2" ELSE "gemini2"])
                 ELSE SetCarta([rec EXCEPT !.pc = "finished",
                                           !.resp = CartaResp(200, 1, analysis)])
     ELSE LET analysisRegenerado == [of |-> 2, score |-> outcome]
              best == BestCarta(carta.first, analysisRegenerado)
          IN SetCarta([carta EXCEPT !.second = analysisRegenerado, !.pc = "finished",
                                    !.resp = CartaResp(200, best.of, best)])

InitCarta ==
  /\ VIDEO_MODEL = "gemini-2.0-flash-exp"
  /\ VIMEO_ACCESS_TOKEN = TRUE
  /\ env = [full |-> TRUE, ingest |-> 0, publish |-> 0, jobs |-> {"v1"}, scores |-> {10}]
  /\ ledger = [j \in Jobs |-> NoDoc]
  /\ ing = [r \in IngestIds |-> IngInit]
  /\ pub = [p \in PublishIds |-> PubInit]
  /\ files = {}
  /\ vimeo = {}
  /\ out = NoOut
  /\ \E configured \in BOOLEAN : carta = [CartaInit EXCEPT !.openai = configured]

NextCarta ==
  \/ \E valid \in BOOLEAN : CartaRequest(valid)
  \/ \E ok \in BOOLEAN : GenerateDone(ok)
  \/ \E ok \in BOOLEAN, outcome \in CartaScores : AnalyzeCartaDone(ok, outcome)

SpecCarta == InitCarta /\ [][NextCarta]_vars

(* ======================= properties ======================= *)
IngestReturned == out.handler = "analyzeVideo"
PublishReturned == out.handler = "uploadToVimeo"
InPipeline == {"init", "transfer", "poll", "sleep", "analyze", "doneWrite", "errorWrite"}
\* the locals of every run in progress and of the run that just returned
RunRecords == {ing[r] : r \in IngestIds} \cup {out.ing}
FileRefOf(rec) == IF rec.uploaded \in {"name", "uri"} THEN 1 ELSE 0

\* C1: a run of analyzeVideo that passes validation writes status processing
\* first and then exactly one terminal status, done or error; the ledger
\* status follows these writes.
C1_StatusOnce ==
  /\ \A r \in IngestIds :
       /\ ing[r].pc \in {"idle", "create"} => ing[r].writes = <<>>
       /\ ing[r].pc \in InPipeline =>
            /\ ing[r].writes = <<"processing">>
            /\ ledger[ing[r].job].status = "processing"
  /\ IngestReturned /\ out.ing.resp.kind \in {"ok", "error"} =>
       /\ out.ing.writes \in {<<"processing", "done">>, <<"processing", "error">>}
       /\ out.ing.resp.ok = (out.ing.writes[2] = "done")
       /\ ledger[out.ing.job].status = out.ing.writes[2]
  /\ IngestReturned /\ out.ing.resp.kind \notin {"ok", "error"} => out.ing.writes = <<>>

\* C1 witness: the done write failed and the run still wrote exactly one
\* terminal status, error.
C1_Witness ==
  /\ IngestReturned
  /\ out.ing.lastError = Err("firestore", "done")
  /\ out.ing.writes = <<"processing", "error">>
  /\ ledger[out.ing.job].status = "error"

\* C2: result and error are never both present in a ledger record; result
\* only with status done, error only with status error.
C2_ResultXorError ==
  \A j \in Jobs :
    /\ ~(ledger[j].result # NoResult /\ ledger[j].error # NoError)
    /\ ledger[j].result # NoResult => ledger[j].status = "done"
    /\ ledger[j].error # NoError => ledger[j].status = "error"

\* C3: a run that obtained a file reference starts deleteGeminiFile exactly
\* once, on the done path and on the error path, a run without reference
\* never; the completion of the delete, failed or not, leaves the ledger as
\* it was.
C3_DeleteOnce ==
  /\ [](/\ \A r \in IngestIds : ing[r].pc \in InPipeline \cup {"idle", "create"} => ing[r].deletes = 0
        /\ IngestReturned =>
             /\ out.ing.deletes = FileRefOf(out.ing)
             /\ (out.ing.pc = "deleting") = (FileRefOf(out.ing) = 1))
  /\ [][\A r \in IngestIds :
          ing[r].pc = "deleting" /\ ing'[r].pc # "deleting" => ledger' = ledger]_vars

\* C3 witness: a run ended in error, its delete failed (the staged file is
\* still there) and the record still says error.
C3_Witness ==
  \E r \in IngestIds :
    /\ ing[r].pc = "finished"
    /\ r \in files
    /\ ledger["v1"].status = "error"
    /\ ledger["v1"].error # NoError

IsPrefix(a, b) == Len(a) <= Len(b) /\ \A i \in 1..Len(a) : a[i] = b[i]
ModelsOf(attempts) == [i \in 1..Len(attempts) |-> attempts[i].model]

\* C4: the attempted candidates are a prefix of the candidate list (primary
\* first); every attempt but the last failed; the call returns at the first
\* success with the result of that candidate.
C4_FallbackOrder ==
  \A rec \in RunRecords :
    LET a == rec.attempts
        n == Len(a)
    IN /\ IsPrefix(ModelsOf(a), VALID_VIDEO_MODELS)
       /\ n >= 1 => a[1].model = VIDEO_MODEL
       /\ \A i \in 1..(n - 1) : a[i].kind # "ok"
       /\ rec.pc = "analyze" => n = rec.idx - 1 /\ \A i \in 1..n : a[i].kind # "ok"
       /\ rec.pc = "doneWrite" \/ rec.resp.ok =>
            n >= 1 /\ a[n].kind = "ok" /\ rec.result.by = a[n].model

\* C4 witness: only the third candidate succeeds: three attempts, its result.
C4_Witness ==
  \E r \in IngestIds :
    /\ ing[r].pc = "doneWrite"
    /\ Len(ing[r].attempts) = 3
    /\ ing[r].result.by = VALID_VIDEO_MODELS[3]
    /\ ing[r].result.score = 42

\* C5: when every candidate failed, the error thrown by retryWithModels is
\* the failure of the last candidate of the list.
C5_LastError ==
  \A rec \in RunRecords :
    rec.lastError.kind \in {"http", "timeout", ParseMessage} /\ rec.attempts # <<>> =>
      LET a == rec.attempts
          n == Len(a)
      IN IF rec.pc = "analyze"
           THEN n >= 1 /\ rec.lastError.detail = a[n].model
           ELSE /\ n = Len(VALID_VIDEO_MODELS)
                /\ \A i \in 1..n : a[i].kind # "ok"
                /\ rec.lastError.detail = VALID_VIDEO_MODELS[n]
                /\ (rec.lastError.kind = "http") = (a[n].kind = "http")
                /\ IngestReturned /\ rec = out.ing =>
                     ledger[rec.job].error.detail = VALID_VIDEO_MODELS[n]

\* C5 witness: the first candidate failed with an HTTP error, the last one
\* with a parse error, and the parse error of the last one is what was thrown.
C5_Witness ==
  /\ IngestReturned
  /\ Len(out.ing.attempts) = Len(VALID_VIDEO_MODELS)
  /\ out.ing.attempts[1].kind = "http"
  /\ out.ing.lastError = Err(ParseMessage, VALID_VIDEO_MODELS[Len(VALID_VIDEO_MODELS)])
  /\ ledger[out.ing.job].error = out.ing.lastError

C7_AlreadyUploaded ==
  PublishReturned /\ out.pub.data.exists /\ out.pub.data.vimeoStatus = "uploaded" =>
    /\ out.pub.resp.code = 400
    /\ out.pub.resp.kind = AlreadyMessage
    /\ out.pub.resp.link = out.pub.data.vimeoLink
    /\ out.pub.calls = 0
    /\ out.pub.writes = <<>>

\* C8: a publish call that reads a record whose score is below the threshold
\* answers 403 with that score and the threshold, calls Vimeo never and
\* writes nothing; no call in progress past the checks read such a record.
C8_Eligibility ==
  /\ \A p \in PublishIds :
       pub[p].passed => ~(pub[p].data.result.score < SCORE_THRESHOLD)
  /\ PublishReturned /\ out.pub.data.exists /\ out.pub.data.result.score \in 0..100
       /\ out.pub.data.result.score < out.pub.data.scoreThreshold =>
         /\ out.pub.resp.code = 403
         /\ out.pub.resp.kind = EligibilityMessage
         /\ out.pub.resp.score = out.pub.data.result.score
         /\ out.pub.resp.threshold = out.pub.data.scoreThreshold
         /\ out.pub.calls = 0
         /\ out.pub.writes = <<>>

\* C8 witness: score 5, threshold 10: rejected.
C8_Witness ==
  /\ PublishReturned
  /\ out.pub.data.result.score = 5
  /\ out.pub.data.scoreThreshold = 10
  /\ out.pub.data.qualifiesForVimeo = "false"
  /\ out.pub.resp.code = 403

\* C9: the response of a publish call is that of the first failing check in
\* the order exists, qualifiesForVimeo, vimeoStatus # uploaded; the upload
\* is attempted only when all three pass.
C9_CheckOrder ==
  PublishReturned
      /\ out.pub.resp.kind \notin {"multer", "analysisId requerido", "file requerido"} =>
    LET d == out.pub.data
    IN IF ~d.exists THEN out.pub.resp.code = 404 /\ ~out.pub.passed
       ELSE IF d.qualifiesForVimeo # "true"
         THEN out.pub.resp.code = 403 /\ ~out.pub.passed
       ELSE IF d.vimeoStatus = "uploaded"
         THEN out.pub.resp.kind = AlreadyMessage /\ ~out.pub.passed
       ELSE out.pub.passed /\ out.pub.resp.kind \in {"ok", "error"}

\* C9 witness: the record read fails both the eligibility check and the
\* already-uploaded check; the eligibility error is returned.
C9_Witness ==
  /\ PublishReturned
  /\ out.pub.data.exists
  /\ out.pub.data.qualifiesForVimeo = "false"
  /\ out.pub.data.vimeoStatus = "uploaded"
  /\ out.pub.resp.code = 403

C11_FailureCaught ==
  /\ \A r \in IngestIds :
       ing[r].pc = "errorWrite" =>
         ing[r].lastError # NoError /\ ing[r].writes = <<"processing">>
  /\ IngestReturned /\ out.ing.resp.kind \in {"ok", "error"} =>
       /\ out.ing.resp.ok = (ledger[out.ing.job].status = "done")
       /\ out.ing.resp.ok = (out.ing.lastError = NoError)
       /\ ~out.ing.resp.ok =>
            /\ out.ing.resp.code = 500
            /\ out.ing.resp.err = out.ing.lastError
            /\ out.ing.writes = <<"processing", "error">>
            /\ ledger[out.ing.job].status = "error"
            /\ ledger[out.ing.job].error # NoError
            /\ ledger[out.ing.job].error = LedgerMessage(out.ing.lastError)

\* C11 witness: the staged descriptor carried no file reference; the run
\* answered 500 and the record says error with that message.
C11_Witness ==
  /\ IngestReturned
  /\ out.ing.resp.code = 500
  /\ out.ing.uploaded \in {"bare", "nofile"}
  /\ out.ing.lastError.kind = "No se obtuvo referencia del archivo (name/uri) de Gemini"
  /\ ledger[out.ing.job].error = out.ing.lastError

\* C12: a record with status done holds a result that was decoded from the
\* text of the provider's response, never the '{}' default used when the
\* response carries no text.
C12_NoDefaultResult ==
  \A j \in Jobs : ledger[j].status = "done" => ledger[j].result.src = "text"

ValidationErrors == {"multer", "analysisId requerido", "file requerido"}

\* C13: an ingest request rejected by multer (MIME type, size) or by the
\* handler's checks (analysisId, file) returns without any ledger write and
\* without any staging, poll, evaluation or delete request; the step that
\* rejects it leaves the ledger, the staged files and every other run as
\* they were.
C13_RejectedIngest ==
  /\ [](IngestReturned /\ out.ing.resp.kind \in ValidationErrors =>
          /\ out.ing.writes = <<>>
          /\ out.ing.uploaded = "null"
          /\ out.ing.remote = NoBehaviour
          /\ out.ing.elapsed = 0
          /\ out.ing.attempts = <<>>
          /\ out.ing.deletes = 0
          /\ out.ing.pc = "finished"
          /\ out.ing.resp.code \in {400, 500})
  /\ [][(out'.handler = "analyzeVideo" /\ out'.ing.resp.kind \in ValidationErrors) =>
          /\ ledger' = ledger
          /\ files' = files
          /\ vimeo' = vimeo
          /\ pub' = pub
          /\ ing[out'.id].pc = "idle"]_vars

\* C13 witness: a request for job v1 without file is rejected with 400 and
\* no record of v1 exists afterwards.
C13_Witness ==
  /\ IngestReturned
  /\ out.ing.resp = Resp(400, "file requerido")
  /\ out.ing.job = "v1"
  /\ ~ledger["v1"].exists

StagingSent == {"init", "transfer", "poll", "sleep", "analyze"}

\* C14: the step that sends the first staging request is the completion of
\* the create write, which leaves status processing in the record; nothing
\* is staged before it; from then until the run's terminal write the record
\* of the job says processing.
C14_ProcessingFirst ==
  /\ [](\A r \in IngestIds :
          /\ ing[r].pc \in {"idle", "create"} => r \notin files /\ ing[r].writes = <<>>
          /\ ing[r].pc \in StagingSent \cup {"doneWrite", "errorWrite"} =>
               /\ Head(ing[r].writes) = "processing"
               /\ ledger[ing[r].job].exists
               /\ ledger[ing[r].job].status = "processing"
               /\ ledger[ing[r].job].fileName # "absent")
  /\ [][\A r \in IngestIds :
          ing'[r].pc \in StagingSent /\ ing[r].pc \notin StagingSent =>
            /\ ing[r].pc = "create"
            /\ ing'[r].pc = "init"
            /\ ledger'[ing'[r].job].status = "processing"]_vars

\* C14 witness: the file is staged and being polled, and the record of the
\* job says processing.
C14_Witness ==
  \E r \in IngestIds :
    /\ ing[r].pc = "sleep"
    /\ r \in files
    /\ ledger[ing[r].job].status = "processing"
    /\ ledger[ing[r].job].result = NoResult

C16_CleanupBeforeResponse ==
  IngestReturned /\ FileRefOf(out.ing) = 1 =>
    /\ out.ing.deletes = 1
    /\ ing[out.id].pc # "deleting"

VimeoSteps == {"vimeoCreate", "vimeoPatch", "vimeoDetails"}

\* C17: a publish call that passed the checks writes vimeoStatus uploading
\* before the first Vimeo request, sends the create, transfer and details
\* requests in that order, writes uploaded with the link only after the
\* third succeeded, and on any failure writes vimeoStatus error with the
\* failure and answers 500 with it.
C17_PublishSteps ==
  /\ \A p \in PublishIds :
       /\ pub[p].pc = "markUploading" => pub[p].passed /\ pub[p].writes = <<>> /\ pub[p].calls = 0
       /\ pub[p].pc \in VimeoSteps \cup {"savedWrite", "errorWrite"} =>
            /\ pub[p].passed
            /\ pub[p].writes = <<"uploading">>
            /\ ledger[pub[p].job].vimeoStatus = "uploading"
            /\ ledger[pub[p].job].vimeoLink = 0
       /\ pub[p].pc = "vimeoCreate" => pub[p].calls = 1
       /\ pub[p].pc = "vimeoPatch" => pub[p].calls = 2
       /\ pub[p].pc = "vimeoDetails" => pub[p].calls = 3
       /\ pub[p].pc = "savedWrite" =>
            pub[p].calls = 3 /\ pub[p].link # 0 /\ pub[p].lastError = NoError
       /\ pub[p].pc = "errorWrite" => pub[p].lastError # NoError /\ pub[p].link = 0
  /\ PublishReturned /\ out.pub.passed =>
       /\ out.pub.writes \in {<<"uploading", "uploaded">>, <<"uploading", "error">>}
       /\ out.pub.writes[2] = "uploaded" =>
            /\ out.pub.calls = 3
            /\ out.pub.resp.ok /\ out.pub.resp.link = out.pub.link
            /\ ledger[out.pub.job].vimeoStatus = "uploaded"
            /\ ledger[out.pub.job].vimeoLink = out.pub.link
       /\ out.pub.writes[2] = "error" =>
            /\ ~out.pub.resp.ok /\ out.pub.resp.code = 500
            /\ out.pub.resp.err = out.pub.lastError
            /\ out.pub.lastError # NoError
            /\ ledger[out.pub.job].vimeoStatus = "error"
            /\ ledger[out.pub.job].vimeoError = out.pub.lastError
            /\ ledger[out.pub.job].vimeoLink = 0

\* C17 witness: create and transfer succeeded, the details request failed:
\* the record says vimeoStatus error with that failure and has no link.
C17_Witness ==
  /\ PublishReturned
  /\ out.pub.calls = 3
  /\ out.pub.lastError = Err("vimeo", "details")
  /\ ledger[out.pub.job].vimeoStatus = "error"
  /\ ledger[out.pub.job].vimeoError = Err("vimeo", "details")
  /\ vimeo # {}

\* C18: a publish call answered 404, 403 or the already-uploaded 400 made no
\* Vimeo request and no ledger write, and the step that answers it leaves
\* every ledger record as it was; after a 404 the job still has no record.
C18_RejectedPublish ==
  /\ [](PublishReturned /\ ~out.pub.passed =>
          /\ out.pub.writes = <<>>
          /\ out.pub.calls = 0
          /\ out.pub.resp.code \in {400, 403, 404, 500}
          /\ out.pub.resp.code = 404 => ~ledger[out.pub.job].exists
          /\ out.pub.resp.code \in {403, 404} \/ out.pub.resp.kind = AlreadyMessage =>
               ledger[out.pub.job] = out.pub.data)
  /\ [][(out'.handler = "uploadToVimeo" /\ ~out'.pub.passed) =>
          /\ ledger' = ledger
          /\ vimeo' = vimeo
          /\ files' = files]_vars

\* C18 witness: a call on a record that says done with score 5 was answered
\* 403 and the record still has status done, that result and no publish
\* error.
C18_Witness ==
  /\ PublishReturned
  /\ out.pub.resp.code = 403
  /\ ledger[out.pub.job].status = "done"
  /\ ledger[out.pub.job].result.score = 5
  /\ ledger[out.pub.job].qualifiesForVimeo = "false"
  /\ ledger[out.pub.job].vimeoStatus = "not_applicable"

\* C19: in every ledger record the Vimeo link (written together with the
\* Vimeo uri and video id) is present if and only if vimeoStatus is uploaded.
C19_LinkIffUploaded ==
  \A j \in Jobs : (ledger[j].vimeoLink # 0) = (ledger[j].vimeoStatus = "uploaded")

\* C20: no step of analyzeVideo changes vimeoStatus, vimeoLink or vimeoError
\* of any ledger record.
C20_IngestKeepsPublishFields ==
  [][(\E r \in IngestIds : ing'[r] # ing[r]) =>
       \A j \in Jobs :
         /\ ledger'[j].vimeoStatus = ledger[j].vimeoStatus
         /\ ledger'[j].vimeoLink = ledger[j].vimeoLink
         /\ ledger'[j].vimeoError = ledger[j].vimeoError]_vars

PublishTransitions ==
  {<<"pending", "uploading">>, <<"uploading", "uploaded">>, <<"uploading", "error">>}

\* C21: once the done write has given a record its first vimeoStatus, every
\* later change of vimeoStatus is one of pending -> uploading,
\* uploading -> uploaded, uploading -> error.
C21_PublishTransitions ==
  [][\A j \in Jobs :
       ledger[j].vimeoStatus # "absent" /\ ledger'[j].vimeoStatus # ledger[j].vimeoStatus =>
         <<ledger[j].vimeoStatus, ledger'[j].vimeoStatus>> \in PublishTransitions]_vars

\* C22: every publish write of a call (uploading, uploaded, error) is made
\* on a record whose analysis has written its terminal status and is not
\* being analysed: at the write the record says done or error, never
\* processing.
C22_PublishAfterTerminal ==
  [][\A p \in PublishIds :
       pub[p].pc \in {"markUploading", "savedWrite", "errorWrite"} /\ pub'[p] # pub[p] =>
         /\ ledger[pub[p].job].exists
         /\ ledger[pub[p].job].status \in {"done", "error"}]_vars

\* C23: a run that got no staging descriptor, or one without file name and
\* uri, returns without starting a delete; the completion of a delete,
\* failed or not, ends the run without entering the catch of the handler,
\* without a response and without a ledger write.
C23_ReleaseSwallowed ==
  /\ [](IngestReturned /\ out.ing.uploaded \in {"null", "bare", "nofile"} =>
          /\ out.ing.deletes = 0
          /\ out.ing.pc = "finished"
          /\ ing[out.id].pc = "finished")
  /\ [][\A r \in IngestIds :
          ing[r].pc = "deleting" /\ ing'[r] # ing[r] =>
            /\ ing'[r].pc = "finished"
            /\ ing'[r].lastError = NoError
            /\ out'.handler = "none"
            /\ ledger' = ledger
            /\ files' \subseteq files]_vars

\* C23 witness: the run wrote done, its delete request failed: the staged
\* file is still there, the run is over and the record says done.
C23_Witness ==
  \E r \in IngestIds :
    /\ ing[r].pc = "finished"
    /\ r \in files
    /\ out.handler = "none"
    /\ ledger["v1"].status = "done"
    /\ ledger["v1"].error = NoError

StagingErrors ==
  {Err("No se obtuvo upload URL de Gemini", ""), Err("network", "init"), Err("network", "transfer"),
   Err("timeout", "init"), Err("timeout", "transfer")}

\* C24: the initiation request is sent once, by the completion of the create
\* write, and the transfer request at most once, by the initiation that
\* returned an upload URL; a run whose initiation returned no URL or whose
\* initiation or transfer failed goes straight to the error write: nothing
\* was staged, polled or evaluated, and it ends with status error.
C24_StagingFatal ==
  /\ [](\A rec \in RunRecords :
          rec.lastError \in StagingErrors =>
            /\ rec.pc \in {"errorWrite", "finished"}
            /\ rec.uploaded = "null"
            /\ rec.remote = NoBehaviour
            /\ rec.state = "none" /\ rec.elapsed = 0
            /\ rec.attempts = <<>>
            /\ rec.deletes = 0)
  /\ [](IngestReturned /\ out.ing.lastError \in StagingErrors =>
          /\ ~out.ing.resp.ok
          /\ out.id \notin files
          /\ ledger[out.ing.job].status = "error"
          /\ ledger[out.ing.job].error = out.ing.lastError)
  /\ [][\A r \in IngestIds :
          /\ ing'[r].pc = "init" /\ ing'[r] # ing[r] => ing[r].pc = "create"
          /\ ing'[r].pc = "transfer" /\ ing'[r] # ing[r] => ing[r].pc = "init"
          /\ ing[r].pc \in {"init", "transfer"} /\ ing'[r] # ing[r] =>
               ing'[r].pc \in {"transfer", "poll", "errorWrite"} /\ ing'[r].pc # ing[r].pc]_vars

\* C24 witness: the initiation answered without upload URL; the run ended
\* with status error and that message.
C24_Witness ==
  /\ IngestReturned
  /\ out.ing.lastError = Err("No se obtuvo upload URL de Gemini", "")
  /\ out.ing.writes = <<"processing", "error">>
  /\ ledger[out.ing.job].error.kind = "No se obtuvo upload URL de Gemini"
  /\ files = {}

DistinctCandidates ==
  {VIDEO_MODEL, "gemini-2.0-flash-exp", "gemini-1.5-pro", "gemini-1.5-flash"}

\* C25: in the attempts of one call of retryWithModels no model occurs
\* twice, and there are at most as many attempts as distinct candidates,
\* whatever the primary model is.
C25_NoRepeat ==
  \A rec \in RunRecords :
    LET a == rec.attempts
    IN /\ \A i, k \in 1..Len(a) : i # k => a[i].model # a[k].model
       /\ \A i \in 1..Len(a) : a[i].model \in DistinctCandidates
       /\ Len(a) <= Cardinality(DistinctCandidates)
       /\ rec.pc = "analyze" => rec.idx <= Cardinality(DistinctCandidates)

\* C25 witness: the primary equals the second fallback and every candidate
\* failed: three attempts for three distinct candidates.
C25_Witness ==
  /\ VIDEO_MODEL = "gemini-1.5-pro"
  /\ IngestReturned
  /\ Len(out.ing.attempts) = 3
  /\ out.ing.attempts[1].model = "gemini-1.5-pro"
  /\ \A i \in 1..3 : out.ing.attempts[i].kind # "ok"
  /\ ~out.ing.resp.ok

FallbackModels == <<"gemini-2.0-flash-exp", "gemini-1.5-pro", "gemini-1.5-flash">>

PositionIn(a, v) == CHOOSE i \in 1..Len(a) : a[i] = v

\* C26: VALID_VIDEO_MODELS starts with the primary, contains each of the
\* three fallbacks, contains no identifier twice, and lists the fallbacks
\* other than the primary in the order in which they are written, for each
\* primary.
C26_CandidateList ==
  LET v == VALID_VIDEO_MODELS
  IN /\ Len(v) >= 1 /\ v[1] = VIDEO_MODEL
     /\ \A i \in 1..Len(FallbackModels) : \E k \in 1..Len(v) : v[k] = FallbackModels[i]
     /\ \A i, k \in 1..Len(v) : i # k => v[i] # v[k]
     /\ \A i \in 1..Len(v) : v[i] \in DistinctCandidates
     /\ \A i, k \in 1..Len(FallbackModels) :
          i < k /\ FallbackModels[i] # VIDEO_MODEL /\ FallbackModels[k] # VIDEO_MODEL =>
            PositionIn(v, FallbackModels[i]) < PositionIn(v, FallbackModels[k])
     /\ Candidates = v

\* C26 witness: with the second fallback as primary the list is that
\* primary, then the first and the third fallback, and a run is calling the
\* second entry.
C26_Witness ==
  /\ VIDEO_MODEL = "gemini-1.5-pro"
  /\ VALID_VIDEO_MODELS = <<"gemini-1.5-pro", "gemini-2.0-flash-exp", "gemini-1.5-flash">>
  /\ \E r \in IngestIds :
       /\ ing[r].pc = "analyze"
       /\ ing[r].idx = 2
       /\ ing[r].attempts[1].model = "gemini-1.5-pro"

C29_PollRhythm ==
  [][\A r \in IngestIds :
       ing'[r] # ing[r] =>
         /\ ing'[r].pc = "poll" =>
              \/ ing[r].pc = "transfer" /\ ing'[r].elapsed = 0
              \/ ing[r].pc = "sleep" /\ ing'[r].elapsed = ing[r].elapsed + intervalMs
         /\ ing[r].pc = "sleep" => ing'[r].pc = "poll" /\ ing'[r].state = ing[r].state
         /\ ing'[r].pc = "sleep" =>
              /\ ing[r].pc = "poll"
              /\ ing'[r].state = ProviderState(ing[r].remote, ing'[r].elapsed)
              /\ ing'[r].state # "ACTIVE"
         /\ ing'[r].pc = "analyze" /\ ing[r].pc # "analyze" =>
              /\ ing[r].pc = "poll"
              /\ ing'[r].elapsed \in {ing[r].elapsed + d : d \in FetchDurations}
              /\ ing'[r].state = "ACTIVE"
              /\ ProviderState(ing[r].remote, ing'[r].elapsed) = "ACTIVE"]_vars

\* C29 witness: the third fetch is outstanding after two fetches of 10 s and
\* two sleeps of intervalMs.
C29_Witness ==
  \E r \in IngestIds :
    /\ ing[r].pc = "poll"
    /\ ing[r].elapsed = 2 * (10000 + intervalMs)
    /\ ing[r].state = "PROCESSING"

\* a deadline was exceeded during the run: the timeout of the initiation or
\* of the transfer request, of an evaluation call, or timeoutMs of the poll
DeadlineExceeded(rec) ==
  \/ rec.lastError.kind \in {"timeout", TimeoutMessage}
  \/ \E i \in 1..Len(rec.attempts) : rec.attempts[i].kind = "timeout"
  \/ rec.remote # NoBehaviour /\ rec.elapsed > timeoutMs

\* C30 as claimed: a run during which a deadline was exceeded ends with
\* status error, never done.
C30_DeadlineFatal ==
  IngestReturned /\ DeadlineExceeded(out.ing) =>
    ~out.ing.resp.ok /\ ledger[out.ing.job].status = "error"

\* C30 amended: a run ends with status error when the initiation or the
\* transfer request timed out, when the poll gave up after timeoutMs, or
\* when the evaluation call to the last candidate timed out; an evaluation
\* call that timed out on an earlier candidate is followed by the call to
\* the next candidate, and the run ends done only on a candidate's answer.
C30_FatalDeadlines ==
  /\ \A rec \in RunRecords :
       LET n == Len(rec.attempts)
       IN /\ rec.lastError.kind = "timeout" /\ n = 0 =>
               rec.pc \in {"errorWrite", "finished"} /\ rec.uploaded = "null"
          /\ n > 0 /\ rec.attempts[n].kind = "timeout" =>
               /\ rec.lastError = Err("timeout", rec.attempts[n].model)
               /\ IF n < Len(Candidates) THEN rec.pc = "analyze" /\ rec.idx = n + 1
                  ELSE rec.pc \in {"errorWrite", "finished", "deleting"}
  /\ IngestReturned =>
       LET rec == out.ing
           n == Len(rec.attempts)
       IN /\ rec.lastError.kind \in {"timeout", TimeoutMessage} =>
               /\ ~rec.resp.ok
               /\ rec.writes = <<"processing", "error">>
               /\ ledger[rec.job].status = "error"
               /\ ledger[rec.job].error = rec.lastError
          /\ rec.resp.ok => n > 0 /\ rec.attempts[n].kind = "ok" /\ rec.state = "ACTIVE"

\* C30 witness: the evaluation call timed out on every candidate; the run
\* ended with status error and the timeout of the last candidate.
C30_Witness ==
  /\ IngestReturned
  /\ Len(out.ing.attempts) = Len(Candidates)
  /\ \A i \in 1..Len(out.ing.attempts) : out.ing.attempts[i].kind = "timeout"
  /\ out.ing.lastError = Err("timeout", Candidates[Len(Candidates)])
  /\ ledger[out.ing.job].status = "error"

ChangedFields(old, new) == {f \in DOMAIN old : old[f] # new[f]}

\* the fields each ledger write supplies
SuppliedFields(write) ==
  CASE write = "processing" -> {"exists", "status", "fileName"}
    [] write = "done" -> {"exists", "status", "result", "qualifiesForVimeo", "scoreThreshold",
                          "vimeoStatus"}
    [] write = "error" -> {"exists", "status", "error"}
    [] write = "uploading" -> {"vimeoStatus"}
    [] write = "uploaded" -> {"vimeoStatus", "vimeoLink"}
    [] write = "vimeoError" -> {"vimeoStatus", "vimeoError"}

\* C31: every step that changes a ledger record is a write of the handler
\* taking the step, on the record of its job, and changes no field other
\* than those the write supplies: every other field keeps its value.
C31_MergeWrites ==
  [][\A j \in Jobs :
       ledger'[j] # ledger[j] =>
         \/ \E r \in IngestIds :
              /\ ing[r].job = j /\ ing'[r] # ing[r]
              /\ \/ ing[r].pc = "create"
                      /\ ChangedFields(ledger[j], ledger'[j]) \subseteq SuppliedFields("processing")
                 \/ ing[r].pc = "doneWrite"
                      /\ ChangedFields(ledger[j], ledger'[j]) \subseteq SuppliedFields("done")
                 \/ ing[r].pc = "errorWrite"
                      /\ ChangedFields(ledger[j], ledger'[j]) \subseteq SuppliedFields("error")
         \/ \E p \in PublishIds :
              /\ pub[p].job = j /\ pub'[p] # pub[p]
              /\ \/ pub[p].pc = "markUploading"
                      /\ ChangedFields(ledger[j], ledger'[j]) \subseteq SuppliedFields("uploading")
                 \/ pub[p].pc = "savedWrite"
                      /\ ChangedFields(ledger[j], ledger'[j]) \subseteq SuppliedFields("uploaded")
                 \/ pub[p].pc = "errorWrite"
                      /\ ChangedFields(ledger[j], ledger'[j]) \subseteq SuppliedFields("vimeoError")]_vars

\* C31 witness: a record analysed with score 10 and uploaded was analysed
\* again and that run failed: the error write left result, eligibility and
\* link as they were.
C31_Witness ==
  /\ ledger["v1"].status = "error"
  /\ ledger["v1"].error # NoError
  /\ ledger["v1"].result.score = 10
  /\ ledger["v1"].qualifiesForVimeo = "true"
  /\ ledger["v1"].vimeoStatus = "uploaded"
  /\ ledger["v1"].vimeoLink # 0

\* C32: a step of a request for job X changes no ledger record other than
\* that of X, and a staged file disappears only by the delete of the run
\* that staged it; the records and staged files of other jobs are unchanged
\* by every step.
C32_JobsIndependent ==
  [][/\ \A j \in Jobs :
          ledger'[j] # ledger[j] =>
            \/ \E r \in IngestIds : ing[r].job = j /\ ing'[r] # ing[r]
            \/ \E p \in PublishIds : pub[p].job = j /\ pub'[p] # pub[p]
     /\ \A f \in files \ files' :
          /\ ing[f].pc = "deleting" /\ ing'[f].pc = "finished"
          /\ files' = files \ {f}
     /\ \A f \in files' \ files : ing[f].pc = "transfer" /\ ing'[f].pc = "poll"
     /\ \A x \in vimeo' \ vimeo : pub[x[1]].job = x[2] /\ pub'[x[1]] # pub[x[1]]]_vars

\* C32 witness: the run of v1 wrote done and deleted its staged file while
\* the run of v2 is polling its own staged file, which is still there, and
\* the record of v2 says processing.
C32_Witness ==
  /\ ing[1].pc = "finished"
  /\ ledger["v1"].status = "done"
  /\ ing[2].job = "v2" /\ ing[2].pc \in {"poll", "sleep"}
  /\ files = {2}
  /\ ledger["v2"].status = "processing"
  /\ ledger["v2"].result = NoResult

\* C33: of the publish calls in progress on one job id at most one has passed
\* the precondition checks, and the payload of a job is never uploaded to
\* Vimeo by two calls that were in progress together.
C33_SinglePublisher ==
  \A p, q \in PublishIds :
    p # q /\ pub[p].job = pub[q].job => ~(pub[p].passed /\ pub[q].passed)

\* C34: a record whose vimeoStatus is uploading or uploaded has
\* qualifiesForVimeo true.
C34_PublishedQualifies ==
  \A j \in Jobs :
    ledger[j].vimeoStatus \in {"uploading", "uploaded"} => ledger[j].qualifiesForVimeo = "true"

\* C35: a staged file the provider reports as FAILED is polled like one in
\* any other state than ACTIVE: each fetch within timeoutMs is followed by a
\* sleep and another fetch, the evaluation is never reached, and the poll
\* ends only by the timeout error naming FAILED (or by a fetch that failed).
C35_FailedStatePolled ==
  /\ [](\A rec \in RunRecords :
          rec.remote.kind = "failed" =>
            /\ rec.state \in {"none", "FAILED"}
            /\ rec.attempts = <<>> /\ rec.pc \notin {"analyze", "doneWrite"}
            /\ rec.pc = "sleep" => rec.state = "FAILED" /\ rec.elapsed <= timeoutMs
            /\ rec.lastError # NoError =>
                 \/ rec.lastError = Err("network", "poll")
                 \/ /\ rec.lastError = Err(TimeoutMessage, "FAILED")
                    /\ rec.elapsed > timeoutMs)
  /\ [][\A r \in IngestIds :
          /\ ing[r].pc = "poll" /\ ing[r].remote.kind = "failed" /\ ing'[r] # ing[r]
          /\ ing'[r].elapsed <= timeoutMs /\ ing'[r].lastError = NoError
          => ing'[r].pc = "sleep" /\ ing'[r].state = "FAILED"]_vars

\* C35 witness: the provider reported FAILED at every fetch; the run ended
\* after the timeout with the message naming FAILED.
C35_Witness ==
  /\ IngestReturned
  /\ out.ing.remote.kind = "failed"
  /\ out.ing.elapsed > timeoutMs
  /\ out.ing.lastError = Err(TimeoutMessage, "FAILED")
  /\ ledger[out.ing.job].error = Err(TimeoutMessage, "FAILED")

MaxFetches == (timeoutMs \div intervalMs) + 2

\* C36: a call of waitGeminiFileReady whose fetches return and whose timers
\* fire comes to an end, by returning on ACTIVE or by throwing, after at
\* most floor(timeoutMs / intervalMs) + 2 state fetches.
C36_PollTerminates ==
  /\ [](ing[1].fetches <= MaxFetches)
  /\ <>(ing[1].pc \notin {"poll", "sleep"})

\* C36 witness: fetches take no time and the file never becomes ACTIVE: the
\* 39th fetch, 45600 ms after the start, ends the poll with the timeout
\* error.
C36_Witness ==
  /\ env.fetchMs = 0
  /\ ing[1].fetches = 39
  /\ ing[1].fetches = MaxFetches
  /\ ing[1].elapsed = 45600
  /\ ing[1].pc = "errorWrite"
  /\ ing[1].lastError = Err(TimeoutMessage, "PROCESSING")

MaxScore(a, b) == IF a >= b THEN a ELSE b

\* C38: the carta is regenerated at most once and only after a first
\* analysis with a score below 100; the analysis in a 200 response is that
\* of the carta in the response; its score is the first score when nothing
\* was regenerated and otherwise the larger of the two scores, with the
\* initial carta when they are equal.
C38_BestCarta ==
  /\ carta.regens <= 1
  /\ carta.regens = 1 => carta.first.score \in 0..99
  /\ carta.pc \in {"openai2", "gemini2", "analyze2"} => carta.regens = 1
  /\ carta.second # NoAnalysis => carta.regens = 1
  /\ carta.pc = "finished" /\ carta.resp.code = 200 =>
       /\ carta.resp.carta \in {1, 2}
       /\ carta.resp.analysis.of = carta.resp.carta
       /\ carta.resp.analysis \in {carta.first, carta.second}
       /\ carta.regens = 0 =>
            /\ carta.resp.carta = 1
            /\ ~(carta.first.score \in 0..99)
       /\ carta.regens = 1 =>
            /\ carta.resp.analysis.score = MaxScore(carta.first.score, carta.second.score)
            /\ carta.first.score = carta.second.score => carta.resp.carta = 1

\* C38 witness: the initial and the regenerated carta both scored 85; the
\* initial carta and its analysis are returned.
C38_Witness ==
  /\ carta.pc = "finished"
  /\ carta.regens = 1
  /\ carta.first.score = 85 /\ carta.second.score = 85
  /\ carta.resp = [code |-> 200, carta |-> 1, analysis |-> carta.first]

====
